---- MODULE Spec2Model ----
(***************************************************************************)
(* Workflow state machine of Smart SDLC: the in-memory store MemStorage    *)
(* (src/server/routes.ts, class MemStorage) and the HTTP handlers that     *)
(* drive use cases and requirements through their approval life cycle.     *)
(*                                                                         *)
(* Records are TLA+ functions from field names to values, so that the      *)
(* object spread { ...a, ...b } of the source is the operator Merge.       *)
(* A nullable number (assignedTo, acceptedBy, a Date) holds 0 for null; a  *)
(* Date is the value of the logical clock `now` when `new Date()` ran.     *)
(* An optional result (T | undefined) is a set: {} or {value}.             *)
(* Text fields that no operation reads (title, description, actors, ...)   *)
(* are left out of the records.                                            *)
(***************************************************************************)
EXTENDS Integers, FiniteSets, Sequences, TLC

VARIABLES
    users,                 \* MemStorage.users: id -> [role]
    useCases,              \* MemStorage.useCases: id -> use case record
    requirements,          \* MemStorage.requirements: id -> requirement record
    assignments,           \* MemStorage.assignments: id -> assignment record
    activities,            \* MemStorage.activities: id -> activity record
    currentUserId,         \* MemStorage id counters
    currentUseCaseId,
    currentRequirementId,
    currentAssignmentId,
    currentActivityId,
    now,                   \* the wall clock read by new Date()
    call,                  \* the last operation: name, arguments, store before it
    ret,                   \* what the last operation returned
    inflight,              \* requests issued and not yet served (SpecConc only)
    steps,                 \* operations performed so far
    projects,              \* MemStorage.projects: id -> project record
    currentProjectId,
    deliverables,          \* MemStorage.deliverables: id -> deliverable record
    currentDeliverableId,
    chat,                  \* the POST /api/ai/chat requests, in order of arrival
    response,              \* a model response handed to the extraction parser
    extracted,             \* what the parser returned for it
    uploads,               \* FileUploader.uploads: the entries in insertion order
    transfers              \* the uploadFiles calls and where each one stands

vars == <<users, useCases, requirements, assignments, activities,
          currentUserId, currentUseCaseId, currentRequirementId,
          currentAssignmentId, currentActivityId, now, call, ret, inflight,
          steps, projects, currentProjectId, deliverables,
          currentDeliverableId, chat, response, extracted, uploads, transfers>>

store == <<users, useCases, requirements, assignments, activities,
           currentUserId, currentUseCaseId, currentRequirementId,
           currentAssignmentId, currentActivityId>>

\* The maps of the store that the use-case and requirement workflows leave alone
catalog == <<projects, currentProjectId, deliverables, currentDeliverableId>>

\* The chat request and the parser's input and output
pipeline == <<chat, response, extracted>>

\* The FileUploader of the browser
client == <<uploads, transfers>>

----------------------------------------------------------------------------
(* Bounds of the model *)

MaxTime == 2            \* the clock stops advancing here
MaxNewUsers == 1        \* users created after construction
MaxNewUseCases == 1     \* use cases created after construction
MaxRequirements == 1    \* requirements created
MaxActivities == 2      \* activity log entries created
MaxInflight == 3        \* requests under way together (SpecConc)
MaxSteps == 3           \* operations in one behaviour
MaxLines == 3           \* lines of a response drawn from LineInputs
MaxHeaders == 2         \* headers of a well-formed response
MaxChats == 2           \* chat requests in one behaviour
MaxProjects == 1        \* requests to the project routes in one behaviour
MaxUploads == 2         \* uploadFiles calls in one behaviour

(* Inputs the operations are called with *)

ActingUsers == {1, 2}                \* who approves or accepts
RejectingUsers == {2}                \* who rejects
UseCaseIds == {1, 2}                 \* seeded pending, seeded approved
RequirementIds == {1, 99}
UpdateUserIds == {3}
RoleInputs == {"architect", "ui_designer"}
Reasons == {"undefined", "duplicate"}  \* reason?: string

NoUser == 0             \* null in a user-id field
NoDate == 0             \* null in a Date field
DueDays == 7            \* days the specification gives an automatic assignment (C3)

----------------------------------------------------------------------------
(* Object spread and Map.set *)

Merge(a, b) ==
    [k \in (DOMAIN a) \cup (DOMAIN b) |-> IF k \in DOMAIN b THEN b[k] ELSE a[k]]

MapSet(m, k, v) ==
    [x \in (DOMAIN m) \cup {k} |-> IF x = k THEN v ELSE m[x]]

MapGet(m, k) == IF k \in DOMAIN m THEN {m[k]} ELSE {}

EmptyMap == [x \in {} |-> 0]

TheOne(s) == CHOOSE x \in s : TRUE

Min(s) == CHOOSE x \in s : \A y \in s : x <= y

----------------------------------------------------------------------------
(* State after construction: MemStorage.initializeData *)

defaultUsers ==
    <<"business_analyst_maker", "business_analyst_checker", "architect_maker",
      "architect_checker", "scrum_master", "ui_designer">>

\* <<projectId, priority, status>> of the seeded use cases, in creation order
projectUseCases ==
    << <<1, "critical", "Pending Review">>, <<1, "high", "Approved">>,
       <<1, "critical", "Pending Review">>,
       <<2, "high", "Pending Review">>, <<2, "high", "Approved">>,
       <<2, "medium", "Pending Review">>,
       <<3, "critical", "Pending Review">>, <<3, "high", "Approved">>,
       <<4, "high", "Pending Review">>, <<4, "medium", "Approved">> >>

SeedUseCase(i, s, t) ==
    [id |-> i, projectId |-> s[1], priority |-> s[2], status |-> s[3], createdBy |-> 1,
     assignedTo |-> NoUser, metadata |-> EmptyMap, createdAt |-> t, updatedAt |-> t]

\* status of the seeded projects, in creation order
sampleProjects == <<"active", "Pending Review", "draft", "completed">>

NoCall == [op |-> "none"]
NoReturn == [code |-> "none", body |-> {}]
NoChat == <<>>
NoResponse == ""
NotExtracted == [x \in {} |-> <<>>]

\* The store after construction, with no request made yet
InitStore ==
    /\ now = 1
    /\ users = [i \in 1..Len(defaultUsers) |->
                    [id |-> i, role |-> defaultUsers[i], createdAt |-> 1]]
    /\ currentUserId = Len(defaultUsers) + 1
    /\ useCases = [i \in 1..Len(projectUseCases) |-> SeedUseCase(i, projectUseCases[i], 1)]
    /\ currentUseCaseId = Len(projectUseCases) + 1
    /\ requirements = EmptyMap
    /\ currentRequirementId = 1
    /\ assignments = EmptyMap
    /\ currentAssignmentId = 1
    /\ activities = EmptyMap
    /\ currentActivityId = 1
    /\ call = NoCall
    /\ ret = NoReturn
    /\ inflight = EmptyMap
    /\ steps = 0
    /\ projects = [i \in 1..Len(sampleProjects) |->
                       [id |-> i, status |-> sampleProjects[i], createdBy |-> 1,
                        createdAt |-> 1, updatedAt |-> 1]]
    /\ currentProjectId = Len(sampleProjects) + 1
    /\ deliverables = EmptyMap
    /\ currentDeliverableId = 1
    /\ chat = NoChat
    /\ extracted = NotExtracted
    /\ uploads = <<>>
    /\ transfers = <<>>

Init == InitStore /\ response = NoResponse

----------------------------------------------------------------------------
(* MemStorage: users *)

createUser(insertUser) ==
    Merge(Merge([id |-> currentUserId], insertUser), [createdAt |-> now])

updateUser(id, updates) ==
    IF id \notin DOMAIN users THEN [map |-> users, body |-> {}]
    ELSE LET updatedUser == Merge(users[id], updates)
         IN  [map |-> MapSet(users, id, updatedUser), body |-> {updatedUser}]

\* The ids of the users holding `role`, in Map (insertion = id) order
getUsersByRole(role) == {i \in DOMAIN users : users[i].role = role}

(* MemStorage: use cases *)

createUseCase(useCaseData) ==
    Merge(Merge([id |-> currentUseCaseId], useCaseData),
          [status |-> "Pending Review", assignedTo |-> NoUser,
           metadata |-> EmptyMap, createdAt |-> now, updatedAt |-> now])

updateUseCase(id, updates) ==
    IF id \notin DOMAIN useCases THEN [map |-> useCases, body |-> {}]
    ELSE LET updatedUseCase == Merge(Merge(useCases[id], updates), [updatedAt |-> now])
         IN  [map |-> MapSet(useCases, id, updatedUseCase), body |-> {updatedUseCase}]

approveUseCase(id, approvedBy) ==
    IF id \notin DOMAIN useCases THEN [map |-> useCases, body |-> {}]
    ELSE LET updatedUseCase ==
                 Merge(useCases[id], [status |-> "Approved", assignedTo |-> approvedBy,
                                      updatedAt |-> now])
         IN  [map |-> MapSet(useCases, id, updatedUseCase), body |-> {updatedUseCase}]

\* Mutant: replaces the metadata by the reason instead of adding the reason
rejectUseCase_DropsMetadata(id, rejectedBy, reason) ==
    IF id \notin DOMAIN useCases THEN [map |-> useCases, body |-> {}]
    ELSE LET updatedUseCase ==
                 Merge(useCases[id],
                       [status |-> "Rejected", assignedTo |-> rejectedBy,
                        metadata |-> [rejectionReason |-> reason],
                        updatedAt |-> now])
         IN  [map |-> MapSet(useCases, id, updatedUseCase), body |-> {updatedUseCase}]

rejectUseCase(id, rejectedBy, reason) ==
    IF id \notin DOMAIN useCases THEN [map |-> useCases, body |-> {}]
    ELSE LET updatedUseCase ==
                 Merge(useCases[id],
                       [status |-> "Rejected", assignedTo |-> rejectedBy,
                        metadata |-> Merge(useCases[id].metadata,
                                           [rejectionReason |-> reason]),
                        updatedAt |-> now])
         IN  [map |-> MapSet(useCases, id, updatedUseCase), body |-> {updatedUseCase}]

(* MemStorage: assignments and activities *)

createAssignment(assignmentData) ==
    Merge(Merge([id |-> currentAssignmentId], assignmentData),
          [status |-> "pending", createdAt |-> now, updatedAt |-> now])

\* Mutant: forgets the entry instead of storing the updated one
updateAssignment_DropsEntry(id, updates) ==
    IF id \notin DOMAIN assignments THEN [map |-> assignments, body |-> {}]
    ELSE LET updatedAssignment ==
                 Merge(Merge(assignments[id], updates), [updatedAt |-> now])
         IN  [map |-> [i \in DOMAIN assignments \ {id} |-> assignments[i]],
              body |-> {updatedAssignment}]

updateAssignment(id, updates) ==
    IF id \notin DOMAIN assignments THEN [map |-> assignments, body |-> {}]
    ELSE LET updatedAssignment ==
                 Merge(Merge(assignments[id], updates), [updatedAt |-> now])
         IN  [map |-> MapSet(assignments, id, updatedAssignment),
              body |-> {updatedAssignment}]

\* Mutant: numbers every entry 1, so a later entry replaces the first
createActivity_ReusesId(activityData) ==
    Merge(Merge([id |-> 1], activityData), [createdAt |-> now])

createActivity(activityData) ==
    Merge(Merge([id |-> currentActivityId], activityData), [createdAt |-> now])

\* Array.from(values) in insertion order, then a stable sort, newest first:
\* the place of an entry is the number of entries that come before it
getRecentActivities(limit) ==
    LET ids == DOMAIN activities
        before(i) == {j \in ids : \/ activities[j].createdAt > activities[i].createdAt
                                  \/ /\ activities[j].createdAt = activities[i].createdAt
                                     /\ j < i}
        sorted == [k \in 1..Cardinality(ids) |->
                      activities[CHOOSE i \in ids : Cardinality(before(i)) = k - 1]]
    IN  SubSeq(sorted, 1, Min({limit, Cardinality(ids)}))

(* MemStorage: requirements *)

createRequirement(requirementData) ==
    [id |-> currentRequirementId, content |-> requirementData.content,
     status |-> "draft", version |-> 1, createdBy |-> requirementData.createdBy,
     acceptedBy |-> NoUser, assignedPm |-> NoUser, acceptedAt |-> NoDate,
     createdAt |-> now, updatedAt |-> now]

updateRequirement(id, updates) ==
    IF id \notin DOMAIN requirements THEN [map |-> requirements, body |-> {}]
    ELSE LET updated == Merge(Merge(requirements[id], updates), [updatedAt |-> now])
         IN  [map |-> MapSet(requirements, id, updated), body |-> {updated}]

\* Mutant: accepts an id the store does not hold by storing a record for it
acceptRequirement_Upserts(id, acceptedBy) ==
    LET found == IF id \in DOMAIN requirements THEN requirements[id] ELSE [id |-> id]
        updated == Merge(found, [status |-> "accepted", acceptedBy |-> acceptedBy,
                                 acceptedAt |-> now, updatedAt |-> now])
    IN  [map |-> MapSet(requirements, id, updated), body |-> {updated}]

acceptRequirement(id, acceptedBy) ==
    IF id \notin DOMAIN requirements THEN [map |-> requirements, body |-> {}]
    ELSE LET updated ==
                 Merge(requirements[id],
                       [status |-> "accepted", acceptedBy |-> acceptedBy,
                        acceptedAt |-> now, updatedAt |-> now])
         IN  [map |-> MapSet(requirements, id, updated), body |-> {updated}]

\* Mutant: treats the assignment as a transition and stamps a status
assignToPm_SetsStatus(id, pmId) ==
    IF id \in DOMAIN requirements
    THEN LET updated == Merge(requirements[id], [assignedPm |-> pmId,
                                                 status |-> "assigned", updatedAt |-> now])
         IN  [map |-> MapSet(requirements, id, updated), body |-> {updated}]
    ELSE [map |-> requirements, body |-> {}]

assignToPm(id, pmId) ==
    IF id \notin DOMAIN requirements THEN [map |-> requirements, body |-> {}]
    ELSE LET updated == Merge(requirements[id], [assignedPm |-> pmId, updatedAt |-> now])
         IN  [map |-> MapSet(requirements, id, updated), body |-> {updated}]

(* MemStorage: deliverables.  The fields kept are the two parent references, *)
(* the fields the Jira export reads, and the fields the method fills in by   *)
(* itself; a list is a sequence.                                             *)

NoEntity == 0           \* null in an entity-id field

\* data.field || null, for an id
OrNull(data, field) ==
    IF field \in DOMAIN data /\ data[field] # 0 THEN data[field] ELSE NoEntity

\* data.field || fallback, for a string
OrElse(data, field, fallback) ==
    IF field \in DOMAIN data /\ data[field] # "" THEN data[field] ELSE fallback

\* data.field || [], for a list
OrEmpty(data, field) ==
    IF field \in DOMAIN data THEN data[field] ELSE <<>>

createDeliverable(deliverableData) ==
    [id |-> currentDeliverableId,
     requirementId |-> OrNull(deliverableData, "requirementId"),
     useCaseId |-> OrNull(deliverableData, "useCaseId"),
     title |-> deliverableData.title,
     description |-> deliverableData.description,
     type |-> deliverableData.type,
     jiraKey |-> "null",          \* jiraKey: null
     priority |-> OrElse(deliverableData, "priority", "medium"),
     storyPoints |-> OrNull(deliverableData, "storyPoints"),
     status |-> OrElse(deliverableData, "status", "todo"),
     acceptanceCriteria |-> OrEmpty(deliverableData, "acceptanceCriteria"),
     labels |-> OrEmpty(deliverableData, "labels"),
     createdAt |-> now, updatedAt |-> now]

updateDeliverable(id, updates) ==
    IF id \notin DOMAIN deliverables THEN [map |-> deliverables, body |-> {}]
    ELSE LET updated == Merge(Merge(deliverables[id], updates), [updatedAt |-> now])
         IN  [map |-> MapSet(deliverables, id, updated), body |-> {updated}]

\* Mutant: forgets the filter and returns every deliverable
getDeliverablesByRequirement_All(requirementId) ==
    [k \in 1..Cardinality(DOMAIN deliverables) |->
        deliverables[CHOOSE i \in DOMAIN deliverables :
                         Cardinality({j \in DOMAIN deliverables : j < i}) = k - 1]]

\* Array.from(values) in insertion order, which is the order of the ids, then
\* the filter
getDeliverablesByRequirement(requirementId) ==
    LET ids == {i \in DOMAIN deliverables :
                   deliverables[i].requirementId = requirementId}
    IN  [k \in 1..Cardinality(ids) |->
            deliverables[CHOOSE i \in ids : Cardinality({j \in ids : j < i}) = k - 1]]

generateJiraData(requirementId) ==
    LET found == getDeliverablesByRequirement(requirementId)
    IN  [k \in DOMAIN found |->
            [summary |-> found[k].title,
             description |-> found[k].description,
             issueType |-> found[k].type,
             priority |-> found[k].priority,
             storyPoints |-> found[k].storyPoints,
             acceptanceCriteria |-> found[k].acceptanceCriteria,
             labels |-> found[k].labels,
             components |-> <<>>,
             fixVersions |-> <<>>]]

----------------------------------------------------------------------------
(* One step of the clock: time passes between two operations *)

Tick ==
    /\ now < MaxTime
    /\ now' = now + 1
    /\ UNCHANGED <<store, call, ret, inflight, steps, catalog, pipeline, client>>

\* What `call` records of an operation: its name and arguments (the id, the
\* acting user, and the body or reason as `arg`), the entity
\* it addressed as the store held it when the operation began, and the
\* assignment and activity maps at that moment.
Called(op, id, user, arg, before) ==
    [op |-> op, id |-> id, user |-> user, arg |-> arg, before |-> before,
     assignments |-> assignments, activities |-> activities]

Returned(body) ==
    [code |-> IF body = {} THEN "not_found" ELSE "ok", body |-> body]

----------------------------------------------------------------------------
(* Users *)

UserInputs == {[role |-> r] : r \in RoleInputs}
UserUpdates == {[role |-> "architect"]}

CreateUserOf(insertUser) ==
        /\ currentUserId <= Len(defaultUsers) + MaxNewUsers
        /\ LET user == createUser(insertUser)
           IN  /\ users' = MapSet(users, user.id, user)
               /\ call' = Called("createUser", user.id, NoUser, insertUser, {})
               /\ ret' = Returned({user})
        /\ currentUserId' = currentUserId + 1
        /\ UNCHANGED <<useCases, requirements, assignments, activities,
                       currentUseCaseId, currentRequirementId,
                       currentAssignmentId, currentActivityId, now, inflight>>

CreateUser == \E insertUser \in UserInputs : CreateUserOf(insertUser)

UpdateUser ==
    \E id \in UpdateUserIds, updates \in UserUpdates :
        /\ LET r == updateUser(id, updates)
           IN  /\ users' = r.map
               /\ call' = Called("updateUser", id, NoUser, updates, MapGet(users, id))
               /\ ret' = Returned(r.body)
        /\ UNCHANGED <<useCases, requirements, assignments, activities,
                       currentUserId, currentUseCaseId, currentRequirementId,
                       currentAssignmentId, currentActivityId, now, inflight>>

----------------------------------------------------------------------------
(* Use cases: the handlers of src/server/routes.ts *)

\* Bodies of POST /api/use-cases, as the chat handler builds them
UseCaseInputs == {[projectId |-> 1, priority |-> "medium", status |-> "draft"]}

\* Bodies of PUT /api/use-cases/:id
UseCaseUpdates == {[status |-> "draft"], [metadata |-> [note |-> "kept"]]}

\* POST /api/use-cases with the body useCaseData
PostUseCaseOf(useCaseData) ==
        /\ currentUseCaseId <= Len(projectUseCases) + MaxNewUseCases
        /\ LET useCase == createUseCase(useCaseData)
           IN  /\ useCases' = MapSet(useCases, useCase.id, useCase)
               /\ call' = Called("createUseCase", useCase.id, NoUser, useCaseData, {})
               /\ ret' = Returned({useCase})
        /\ currentUseCaseId' = currentUseCaseId + 1
        /\ UNCHANGED <<users, requirements, assignments, activities,
                       currentUserId, currentRequirementId,
                       currentAssignmentId, currentActivityId, now, inflight>>

PostUseCase ==
    \E useCaseData \in UseCaseInputs : PostUseCaseOf(useCaseData)

\* PUT /api/use-cases/:id with the body updateData
PutUseCaseOf(id, updateData) ==
        /\ LET r == updateUseCase(id, updateData)
           IN  /\ useCases' = r.map
               /\ call' = Called("updateUseCase", id, NoUser, updateData, MapGet(useCases, id))
               /\ ret' = Returned(r.body)
        /\ UNCHANGED <<users, requirements, assignments, activities,
                       currentUserId, currentUseCaseId, currentRequirementId,
                       currentAssignmentId, currentActivityId, now, inflight>>

PutUseCase ==
    \E id \in UseCaseIds, updateData \in UseCaseUpdates : PutUseCaseOf(id, updateData)

\* POST /api/use-cases/:id/submit
SubmitUseCase ==
    \E id \in UseCaseIds :
        /\ LET r == updateUseCase(id, [status |-> "in-review"])
           IN  /\ useCases' = r.map
               /\ call' = Called("submit", id, NoUser, [status |-> "in-review"], MapGet(useCases, id))
               /\ ret' = Returned(r.body)
        /\ UNCHANGED <<users, requirements, assignments, activities,
                       currentUserId, currentUseCaseId, currentRequirementId,
                       currentAssignmentId, currentActivityId, now, inflight>>

----------------------------------------------------------------------------
(* Use cases: storage.approveUseCase and storage.rejectUseCase, the          *)
(* transitions of a use case.  No route of routes.ts wraps them, so an      *)
(* approve or a reject is the storage call and nothing else: neither        *)
(* writes an activity entry or an Assignment.                               *)

ApproveUseCaseOf(id, approvedBy) ==
        /\ LET r == approveUseCase(id, approvedBy)
           IN  /\ useCases' = r.map
               /\ call' = Called("approve", id, approvedBy, "none", MapGet(useCases, id))
               /\ ret' = Returned(r.body)
        /\ UNCHANGED <<users, requirements, assignments, activities,
                       currentUserId, currentUseCaseId, currentRequirementId,
                       currentAssignmentId, currentActivityId, now, inflight>>

ApproveUseCase ==
    \E id \in UseCaseIds, approvedBy \in ActingUsers : ApproveUseCaseOf(id, approvedBy)

RejectUseCase ==
    \E id \in UseCaseIds, rejectedBy \in RejectingUsers, reason \in Reasons :
        /\ LET r == rejectUseCase(id, rejectedBy, reason)
           IN  /\ useCases' = r.map
               /\ call' = Called("reject", id, rejectedBy, reason, MapGet(useCases, id))
               /\ ret' = Returned(r.body)
        /\ UNCHANGED <<users, requirements, assignments, activities,
                       currentUserId, currentUseCaseId, currentRequirementId,
                       currentAssignmentId, currentActivityId, now, inflight>>

----------------------------------------------------------------------------
(* Requirements *)

RequirementInputs == {[content |-> "v1", createdBy |-> 1]}
RequirementUpdates == {[status |-> "draft"], [content |-> "v2"]}
PmIds == {5}

CreateRequirement ==
    \E requirementData \in RequirementInputs :
        /\ currentRequirementId <= MaxRequirements
        /\ LET requirement == createRequirement(requirementData)
           IN  /\ requirements' = MapSet(requirements, requirement.id, requirement)
               /\ call' = Called("createRequirement", requirement.id, NoUser, requirementData, {})
               /\ ret' = Returned({requirement})
        /\ currentRequirementId' = currentRequirementId + 1
        /\ UNCHANGED <<users, useCases, assignments, activities, currentUserId,
                       currentUseCaseId, currentAssignmentId, currentActivityId,
                       now, inflight>>

UpdateRequirement ==
    \E id \in RequirementIds, updates \in RequirementUpdates :
        /\ LET r == updateRequirement(id, updates)
           IN  /\ requirements' = r.map
               /\ call' = Called("updateRequirement", id, NoUser, updates, MapGet(requirements, id))
               /\ ret' = Returned(r.body)
        /\ UNCHANGED <<users, useCases, assignments, activities, currentUserId,
                       currentUseCaseId, currentRequirementId, currentAssignmentId,
                       currentActivityId, now, inflight>>

AssignToPm ==
    \E id \in RequirementIds, pmId \in PmIds :
        /\ LET r == assignToPm(id, pmId)
           IN  /\ requirements' = r.map
               /\ call' = Called("assignToPm", id, NoUser, pmId, MapGet(requirements, id))
               /\ ret' = Returned(r.body)
        /\ UNCHANGED <<users, useCases, assignments, activities, currentUserId,
                       currentUseCaseId, currentRequirementId, currentAssignmentId,
                       currentActivityId, now, inflight>>

\* storage.acceptRequirement, with no route around it
AcceptRequirement ==
    \E id \in RequirementIds, acceptedBy \in ActingUsers :
        /\ LET r == acceptRequirement(id, acceptedBy)
           IN  /\ requirements' = r.map
               /\ call' = Called("accept", id, acceptedBy, "none", MapGet(requirements, id))
               /\ ret' = Returned(r.body)
        /\ UNCHANGED <<users, useCases, assignments, activities, currentUserId,
                       currentUseCaseId, currentRequirementId,
                       currentAssignmentId, currentActivityId, now, inflight>>

----------------------------------------------------------------------------
(* Strings.  A string is a TLA+ string; position 1 is its first character,  *)
(* so that s.substring(a, b) of the source is SubSeq(s, a + 1, b).          *)

charAt(s, i) == IF i \in 1..Len(s) THEN SubSeq(s, i, i) ELSE ""

\* s.substring(0, n)
substring(s, n) == IF Len(s) <= n THEN s ELSE SubSeq(s, 1, n)

\* s.substring(n): the rest of s after its first n characters
substringFrom(s, n) == IF n >= Len(s) THEN "" ELSE SubSeq(s, n + 1, Len(s))

\* t occurs in s at position i
startsWithAt(s, i, t) ==
    /\ i >= 1
    /\ i + Len(t) - 1 <= Len(s)
    /\ SubSeq(s, i, i + Len(t) - 1) = t

includes(s, t) == \E i \in 1..(Len(s) - Len(t) + 1) : SubSeq(s, i, i + Len(t) - 1) = t

\* The pieces f[lo], ..., f[hi] written one after the other
RECURSIVE Concat(_, _, _)
Concat(f, lo, hi) ==
    IF lo > hi THEN ""
    ELSE IF lo = hi THEN f[lo]
    ELSE LET mid == (lo + hi) \div 2
         IN  Concat(f, lo, mid) \o Concat(f, mid + 1, hi)

\* The least position in lo..hi at which hit is true, or 0
RECURSIVE FirstTrue(_, _, _)
FirstTrue(hit, lo, hi) ==
    IF lo > hi THEN 0
    ELSE IF lo = hi THEN (IF hit[lo] THEN lo ELSE 0)
    ELSE LET mid == (lo + hi) \div 2
             left == FirstTrue(hit, lo, mid)
         IN  IF left # 0 THEN left ELSE FirstTrue(hit, mid + 1, hi)

upperCaseLetters == "ABCDEFGHIJKLMNOPQRSTUVWXYZ"
lowerCaseLetters == "abcdefghijklmnopqrstuvwxyz"
digits == "0123456789"

IsUpper(c) == c # "" /\ includes(upperCaseLetters, c)
IsLower(c) == c # "" /\ includes(lowerCaseLetters, c)
\* \d
IsDigit(c) == c # "" /\ includes(digits, c)
\* U+000B, the vertical tab, written as the character itself
verticalTab == ""
\* \s, and the characters String.prototype.trim removes.  Both also take
\* U+00A0, U+FEFF and the Unicode space separators, which no string of this
\* module holds.
IsSpace(c) == c \in {" ", "\t", "\n", "\r", "\f", verticalTab}
\* \w
IsWord(c) == IsUpper(c) \/ IsLower(c) \/ IsDigit(c) \/ c = "_"

LowerChar(c) ==
    IF IsUpper(c)
    THEN LET k == CHOOSE i \in 1..Len(upperCaseLetters) : charAt(upperCaseLetters, i) = c
         IN  charAt(lowerCaseLetters, k)
    ELSE c

toLowerCase(s) == Concat([i \in 1..Len(s) |-> LowerChar(charAt(s, i))], 1, Len(s))

\* The first position at or after i whose character is not white space
\* (a digit, a word character), or Len(s) + 1
RECURSIVE SkipSpace(_, _)
SkipSpace(s, i) == IF IsSpace(charAt(s, i)) THEN SkipSpace(s, i + 1) ELSE i

RECURSIVE SkipDigits(_, _)
SkipDigits(s, i) == IF IsDigit(charAt(s, i)) THEN SkipDigits(s, i + 1) ELSE i

RECURSIVE SkipWord(_, _)
SkipWord(s, i) == IF IsWord(charAt(s, i)) THEN SkipWord(s, i + 1) ELSE i

\* The last position at or before i whose character is not white space, or 0
RECURSIVE SkipSpaceBack(_, _)
SkipSpaceBack(s, i) == IF IsSpace(charAt(s, i)) THEN SkipSpaceBack(s, i - 1) ELSE i

trim(s) ==
    LET first == SkipSpace(s, 1)
        last == SkipSpaceBack(s, Len(s))
    IN  IF first > last THEN "" ELSE SubSeq(s, first, last)

\* s.split(c)[0] for a one-character separator c
splitFirst(s, c) ==
    LET at == FirstTrue([i \in 1..Len(s) |-> charAt(s, i) = c], 1, Len(s))
    IN  IF at = 0 THEN s ELSE SubSeq(s, 1, at - 1)

\* s.split('\n')
split(s) ==
    LET breaks == {i \in 1..Len(s) : charAt(s, i) = "\n"}
        \* the k-th line break; the 0-th is position 0, the last is Len(s) + 1
        break(k) == IF k = 0 THEN 0
                    ELSE IF k > Cardinality(breaks) THEN Len(s) + 1
                    ELSE CHOOSE i \in breaks : Cardinality({j \in breaks : j < i}) = k - 1
    IN  [k \in 1..(Cardinality(breaks) + 1) |->
            IF break(k - 1) + 1 > break(k) - 1 THEN ""
            ELSE SubSeq(s, break(k - 1) + 1, break(k) - 1)]

\* The number of asterisks that end at position i, i included
RECURSIVE StarsBefore(_, _)
StarsBefore(s, i) == IF charAt(s, i) = "*" THEN 1 + StarsBefore(s, i - 1) ELSE 0

RECURSIVE StarsAfter(_, _)
StarsAfter(s, i) == IF charAt(s, i) = "*" THEN 1 + StarsAfter(s, i + 1) ELSE 0

\* s.replace(/\*\*/g, ''): of a run of asterisks the pairs go, from the left
removeBold(s) ==
    LET keep(i) == IF charAt(s, i) # "*" THEN charAt(s, i)
                   ELSE LET before == StarsBefore(s, i)
                            run == before + StarsAfter(s, i) - 1
                        IN  IF before > 2 * (run \div 2) THEN "*" ELSE ""
    IN  Concat([i \in 1..Len(s) |-> keep(i)], 1, Len(s))

\* s.replace(/\s+/g, ' ')
normalizeWhitespace(s) ==
    LET keep(i) == IF ~ IsSpace(charAt(s, i)) THEN charAt(s, i)
                   ELSE IF IsSpace(charAt(s, i - 1)) THEN "" ELSE " "
    IN  Concat([i \in 1..Len(s) |-> keep(i)], 1, Len(s))

\* s.replace(/^\s*-\s*/, '')
removeLeadingBullet(s) ==
    LET dash == SkipSpace(s, 1)
    IN  IF charAt(s, dash) = "-" THEN substringFrom(s, SkipSpace(s, dash + 1) - 1) ELSE s

----------------------------------------------------------------------------
(* extractUseCasesFromResponse: the extraction parser.  A pattern of the    *)
(* source matched at position p gives the position that follows the match,  *)
(* or 0 when it does not match there.                                       *)

\* \d+\.\s*\*\*
NumberedBold(s, p) ==
    LET dot == SkipDigits(s, p)
        stars == SkipSpace(s, dot + 1)
    IN  IF dot > p /\ charAt(s, dot) = "." /\ startsWithAt(s, stars, "**")
        THEN stars + 2 ELSE 0

\* \*\*\d+\.
BoldNumbered(s, p) ==
    LET dot == SkipDigits(s, p + 2)
    IN  IF startsWithAt(s, p, "**") /\ dot > p + 2 /\ charAt(s, dot) = "."
        THEN dot + 1 ELSE 0

\* t, whatever the case of the letters of s (the i flag)
Literal(s, p, t) == IF startsWithAt(toLowerCase(s), p, t) THEN p + Len(t) ELSE 0

\* UC-\w*:?
UseCaseId(s, p) ==
    LET word == SkipWord(s, p + 3)
    IN  IF Literal(s, p, "uc-") = 0 THEN 0
        ELSE IF charAt(s, word) = ":" THEN word + 1 ELSE word

\* line.match(/^\s*(\d+\.\s*\*\*|###|\*\*\d+\.|UC-|Use Case|Requirement)/i)
matchesRecordStart(line) ==
    LET p == SkipSpace(line, 1)
    IN  \/ NumberedBold(line, p) # 0
        \/ Literal(line, p, "###") # 0
        \/ BoldNumbered(line, p) # 0
        \/ Literal(line, p, "uc-") # 0
        \/ Literal(line, p, "use case") # 0
        \/ Literal(line, p, "requirement") # 0

\* line.match(/^\s*(\d+\.\s*\*\*|\*\*\d+\.|###|UC-)/i)
matchesNumberedStart(line) ==
    LET p == SkipSpace(line, 1)
    IN  \/ NumberedBold(line, p) # 0
        \/ BoldNumbered(line, p) # 0
        \/ Literal(line, p, "###") # 0
        \/ Literal(line, p, "uc-") # 0

\* line.replace(/^\s*(\d+\.\s*\*\*|\*\*\d+\.|###|\*\*|UC-\w*:?)\s*/i, '')
removeRecordPrefix(line) ==
    LET p == SkipSpace(line, 1)
        end == IF NumberedBold(line, p) # 0 THEN NumberedBold(line, p)
               ELSE IF BoldNumbered(line, p) # 0 THEN BoldNumbered(line, p)
               ELSE IF Literal(line, p, "###") # 0 THEN Literal(line, p, "###")
               ELSE IF Literal(line, p, "**") # 0 THEN Literal(line, p, "**")
               ELSE UseCaseId(line, p)
    IN  IF end = 0 THEN line ELSE substringFrom(line, SkipSpace(line, end) - 1)

\* The section headings that open the list of records of a type
opensSection(lowerLine, type) ==
    IF type = "functional"
    THEN \/ includes(lowerLine, "**functional use cases")
         \/ includes(lowerLine, "functional use cases (")
         \/ includes(lowerLine, "functional") /\ includes(lowerLine, "use case")
    ELSE \/ includes(lowerLine, "**non-functional requirements")
         \/ includes(lowerLine, "non-functional requirements (")
         \/ /\ includes(lowerLine, "non-functional")
            /\ includes(lowerLine, "requirement") \/ includes(lowerLine, "use case")

\* The next major section
closesSection(lowerLine, type) ==
    \/ includes(lowerLine, "**innovation")
    \/ includes(lowerLine, "technical recommendations")
    \/ includes(lowerLine, "**technical")
    \/ includes(lowerLine, "**functional") /\ type = "non-functional"
    \/ includes(lowerLine, "**non-functional") /\ type = "functional"

\* A line that starts a record
startsRecord(line) ==
    \/ matchesRecordStart(line)
    \/ /\ includes(line, "**")
       /\ Len(line) < 150
       /\ ~ includes(toLowerCase(line), "each use case")

priorityOf(lowerLine) ==
    IF includes(lowerLine, "critical") THEN "Critical"
    ELSE IF includes(lowerLine, "high") THEN "High"
    ELSE IF includes(lowerLine, "low") THEN "Low"
    ELSE "Medium"

typeName(type) == IF type = "functional" THEN "Functional" ELSE "Non-Functional"

\* String(n) for the small numbers that number a default title
numeral(n) == IF n < 10 THEN charAt(digits, n + 1)
              ELSE charAt(digits, (n \div 10) + 1) \o charAt(digits, (n % 10) + 1)

titleOf(line, type, count) ==
    LET title == trim(splitFirst(removeBold(removeRecordPrefix(line)), ":"))
        short == IF Len(title) > 80 THEN substring(title, 80) ELSE title
    IN  IF short # "" THEN short
        ELSE typeName(type) \o " Requirement " \o numeral(count + 1)

\* if (currentUseCase.title && currentUseCase.description.length > 100) push
saved(list, currentUseCase) ==
    IF currentUseCase.title # "" /\ Len(currentUseCase.description) > 100
    THEN Append(list, currentUseCase) ELSE list

\* if (collectingDescription && descriptionBuffer) description = buffer.trim()
refreshed(st) ==
    IF st.collectingDescription /\ st.descriptionBuffer # ""
    THEN [st EXCEPT !.currentUseCase.description = trim(st.descriptionBuffer)]
    ELSE st

\* The state of the loop before its first line
parserStart ==
    [useCases |-> <<>>, inSection |-> FALSE,
     currentUseCase |-> [title |-> "", description |-> "", priority |-> "medium"],
     collectingDescription |-> FALSE, descriptionBuffer |-> "", stopped |-> FALSE]

\* One turn of the loop over the lines
parserStep(st, line, type) ==
    LET lowerLine == toLowerCase(line)
        buffer == st.descriptionBuffer \o "\n" \o trim(line)
    IN  IF opensSection(lowerLine, type) THEN [st EXCEPT !.inSection = TRUE]
        ELSE IF st.inSection /\ closesSection(lowerLine, type)
        THEN [st EXCEPT !.useCases = saved(st.useCases, st.currentUseCase),
                        !.stopped = TRUE]
        ELSE IF ~ st.inSection THEN st
        ELSE IF startsRecord(line)
        THEN refreshed(
                 [st EXCEPT !.useCases = saved(st.useCases, st.currentUseCase),
                            !.currentUseCase =
                                [title |-> titleOf(line, type,
                                                   Len(saved(st.useCases, st.currentUseCase))),
                                 description |-> "",
                                 priority |-> priorityOf(lowerLine)],
                            !.descriptionBuffer = trim(removeRecordPrefix(line)),
                            !.collectingDescription = TRUE])
        ELSE IF /\ st.collectingDescription
                /\ Len(trim(line)) > 0
                /\ ~ matchesNumberedStart(line)
                /\ ~ includes(lowerLine, "each use case must include")
        THEN refreshed(
                 IF Len(buffer) > 2000
                 THEN [st EXCEPT !.descriptionBuffer = buffer,
                                 !.currentUseCase.description = trim(substring(buffer, 2000)),
                                 !.collectingDescription = FALSE]
                 ELSE [st EXCEPT !.descriptionBuffer = buffer])
        ELSE refreshed(st)

RECURSIVE parserLoop(_, _, _, _)
parserLoop(st, lines, i, type) ==
    IF i > Len(lines) \/ st.stopped THEN st
    ELSE parserLoop(parserStep(st, lines[i], type), lines, i + 1, type)

qualityNote(type) ==
    " This " \o type \o " requirement focuses on "
    \o (IF type = "functional" THEN "business functionality and user interactions"
        ELSE "system quality attributes and operational characteristics")
    \o " critical for enterprise-grade implementation."

\* The clean-up of one description
cleaned(uc, type) ==
    LET description == trim(removeLeadingBullet(normalizeWhitespace(removeBold(uc.description))))
    IN  [uc EXCEPT !.description =
            IF Len(description) < 100 THEN description \o qualityNote(type)
            ELSE description]

sliceLimit(type) == IF type = "functional" THEN 8 ELSE 7

extractUseCasesFromResponse(text, type) ==
    LET lines == split(text)
        st == parserLoop(parserStart, lines, 1, type)
        list == saved(st.useCases, st.currentUseCase)
        kept == IF Len(list) > sliceLimit(type) THEN sliceLimit(type) ELSE Len(list)
    IN  [i \in 1..kept |-> cleaned(list[i], type)]

----------------------------------------------------------------------------
(* The responses the parser is run on: every text of at most MaxLines lines *)
(* drawn from LineInputs, and the well-formed responses of WellFormed.      *)

functionalHeading == "**Functional Use Cases (2)**"
nonFunctionalHeading == "**Non-Functional Requirements (1)**"
closingHeading == "**Technical Recommendations**"
longBody == "The trader signs in with a corporate account and the platform checks the entitlement of the desk before any order is shown."
shortBody == "Users sign in."

\* The header lines of a well-formed response, in the formats the prompt asks for
HeaderInputs ==
    <<"1. **User Login**", "### Critical Payment Workflow", "UC-003: Export Report",
      "**4. Audit Trail**", "5. **Trade Capture**", "### Position Limits",
      "7. **Margin Call**", "### Settlement Netting", "9. **Client Statement**">>

LineInputs ==
    {functionalHeading, nonFunctionalHeading, closingHeading,
     HeaderInputs[1], HeaderInputs[2], HeaderInputs[3],
     longBody, shortBody,
     "- **Actors**: trader, compliance officer",
     "Here is the analysis you asked for.",
     ""}

\* lines.join('\n')
joinLines(lines) ==
    Concat([i \in 1..Len(lines) |-> IF i = 1 THEN lines[i] ELSE "\n" \o lines[i]],
           1, Len(lines))

\* A response whose functional section holds n headers, each followed by body
WellFormed(n, body) ==
    joinLines(<<functionalHeading>>
              \o [i \in 1..(2 * n) |-> IF i % 2 = 1 THEN HeaderInputs[(i + 1) \div 2]
                                       ELSE body])

\* The numbers of headers tried: the small ones, and one past the limit of
\* eight records
HeaderCounts == (1..MaxHeaders) \cup {Len(HeaderInputs)}

WellFormedInputs ==
    {WellFormed(n, body) : n \in HeaderCounts, body \in {longBody, shortBody}}

\* A line of more than 2000 characters
longLine == Concat([i \in 1..17 |-> longBody], 1, 17)

\* Responses that reach the length ceiling of a description: in the header
\* line of the last record, and in a body line of a record that is not the last
OverlongInputs ==
    {joinLines(<<functionalHeading, "1. **Sign in** " \o longLine>>),
     joinLines(<<functionalHeading, "1. **Sign in**", longLine,
                 "2. **Sign out**", longBody>>)}

\* A header line that starts with a vertical tab
VerticalTabInputs ==
    {joinLines(<<functionalHeading, verticalTab \o "### Position Limits", longBody>>)}

ResponseInputs ==
    {joinLines(lines) : lines \in UNION {[1..n -> LineInputs] : n \in 0..MaxLines}}
        \cup WellFormedInputs \cup OverlongInputs \cup VerticalTabInputs

Types == {"functional", "non-functional"}

InitExtract == InitStore /\ response \in ResponseInputs

\* extractUseCasesFromResponse(aiResponse, type)
ExtractUseCases ==
    \E type \in Types :
        /\ type \notin DOMAIN extracted
        /\ extracted' = MapSet(extracted, type, extractUseCasesFromResponse(response, type))
        /\ UNCHANGED <<store, catalog, now, call, ret, inflight, steps, chat, response,
                       client>>

NextExtract == ExtractUseCases

\* The extraction parser on its own
SpecExtract == InitExtract /\ [][NextExtract]_vars

----------------------------------------------------------------------------
(* applyBERTEnhancement.  The tensor arithmetic has no effect on the text;  *)
(* the text is rewritten by applyFinancialDomainRefinement, word by word    *)
(* (\b...\b matches a maximal run of word characters).  No replacement      *)
(* introduces a word that a later rule rewrites, so the rules applied one   *)
(* after the other amount to one pass over the words.                       *)

refinedWord(word) ==
    LET w == toLowerCase(word)
    IN  CASE w = "system" -> "enterprise platform"
          [] w = "application" -> "financial application"
          [] w = "data" -> "market data"
          [] w = "process" -> "business process"
          [] w = "user" -> "trading desk user"
          [] w = "report" -> "regulatory report"
          [] w = "transaction" -> "financial transaction"
          [] w \in {"requirement", "specification"} -> word \o " with regulatory compliance"
          [] w \in {"security", "access"} -> word \o " and MiFID II compliance"
          [] w \in {"reporting", "audit"} -> word \o " per Basel III standards"
          [] w = "api" -> "REST API with enterprise security"
          [] w = "database" -> "enterprise data warehouse"
          [] w = "interface" -> "trading desk interface"
          [] OTHER -> word

applyFinancialDomainRefinement(originalText) ==
    LET piece(i) ==
            IF ~ IsWord(charAt(originalText, i)) THEN charAt(originalText, i)
            ELSE IF IsWord(charAt(originalText, i - 1)) THEN ""
            ELSE refinedWord(SubSeq(originalText, i, SkipWord(originalText, i) - 1))
    IN  Concat([i \in 1..Len(originalText) |-> piece(i)], 1, Len(originalText))

\* The enhancement succeeded, or threw and the raw response is used
applyBERTEnhancement(rawResponse, succeeded) ==
    IF succeeded THEN applyFinancialDomainRefinement(rawResponse) ELSE rawResponse

----------------------------------------------------------------------------
(* POST /api/ai/chat.  The handler suspends at every await, and requests    *)
(* under way together interleave there: chat[n] is the n-th request and     *)
(* where it stands.  Of a project and of an extracted record the store      *)
(* keeps, in this model, what later operations read; names and descriptions *)
(* are left out.                                                            *)

modelId == "anthropic.claude-3-sonnet-20240229-v1:0"

\* <<message, currentRole>> of the request bodies
ChatInputs ==
    {<<"Create an EMIR reporting project", "business-analyst">>,
     <<"Create a trading system", "business-analyst">>,
     <<"Create a trading system", "architect">>,
     <<"How do I write a use case?", "business-analyst">>}

\* responseBody.content[0].text of a model call that succeeded
ChatResponses ==
    {WellFormed(1, longBody),
     joinLines(<<"Project Name: [Trade Desk]", "Here is the analysis you asked for.">>)}

\* bedrockClient.send rejected, or the body it returned did not parse
SendFailures == {"ThrottlingException", "malformed"}

isProjectCreationRequest(message) ==
    LET lower == toLowerCase(message)
    IN  /\ includes(lower, "create")
        /\ \/ includes(lower, "project")
           \/ includes(lower, "application")
           \/ includes(lower, "system")
           \/ includes(lower, "platform")

isEMIRProject(message) == includes(toLowerCase(message), "emir")

isReconProject(message) ==
    \/ includes(toLowerCase(message), "recon")
    \/ includes(toLowerCase(message), "reconciliation")

getEMIRFunctionalRequirements ==
    <<[title |-> "Trade Transaction Reporting & Lifecycle Management", priority |-> "Critical"],
      [title |-> "Multi-Trade Repository Connectivity & Routing Engine", priority |-> "Critical"],
      [title |-> "Real-Time Validation Engine & Data Quality Assurance", priority |-> "High"],
      [title |-> "Exception Management & Reconciliation Framework", priority |-> "High"]>>

getEMIRNonFunctionalRequirements ==
    <<[title |-> "Performance Engineering & Scalability Architecture", priority |-> "Critical"],
      [title |-> "Security Architecture & Cyber Resilience Framework", priority |-> "Critical"],
      [title |-> "Regulatory Compliance & Governance Excellence", priority |-> "Critical"]>>

getReconFunctionalRequirements ==
    <<[title |-> "Multi-Source Data Ingestion & Normalization Engine", priority |-> "Critical"],
      [title |-> "Configurable Matching Rules Engine with AI-Powered Analytics", priority |-> "Critical"],
      [title |-> "Real-Time Break Management & Resolution Workflow", priority |-> "High"]>>

getReconNonFunctionalRequirements ==
    <<[title |-> "High-Performance Computing & Real-Time Processing Architecture", priority |-> "Critical"],
      [title |-> "Enterprise Data Management & Analytics Platform", priority |-> "High"]>>

----------------------------------------------------------------------------
(* extractProjectName.  In a pattern the dot takes any character but a line *)
(* terminator, so (.+) ends at the first "\r" of the line.                  *)

IsLineTerminator(c) == c \in {"\n", "\r"}

\* The first position at or after i that holds a line terminator, or Len(s) + 1
RECURSIVE SkipToLineEnd(_, _)
SkipToLineEnd(s, i) ==
    IF i > Len(s) \/ IsLineTerminator(charAt(s, i)) THEN i ELSE SkipToLineEnd(s, i + 1)

\* \s*(.+) or \s+(.+) at position i, the white space having to keep at least
\* least characters: what (.+) takes, if the pattern matches there.  The
\* white space is greedy and gives characters back only when nothing is left
\* for (.+).
spaceThenRest(s, i, least) ==
    LET p == SkipSpace(s, i)
        given == {q \in (i + least)..(p - 1) : ~ IsLineTerminator(charAt(s, q))}
        from == IF p <= Len(s) THEN {p}
                ELSE IF given = {} THEN {}
                ELSE {CHOOSE q \in given : \A r \in given : r <= q}
    IN  IF p - i < least THEN {}
        ELSE {SubSeq(s, q, SkipToLineEnd(s, q) - 1) : q \in from}

\* line.match(/project\s+name\s*:\s*(.+)/i): match[1], if the line matches
matchProjectName(line) ==
    LET lower == toLowerCase(line)
        at(i) == IF startsWithAt(lower, i, "project") /\ IsSpace(charAt(line, i + 7))
                 THEN LET k == SkipSpace(line, i + 7)
                          m == SkipSpace(line, k + 4)
                      IN  IF startsWithAt(lower, k, "name") /\ charAt(line, m) = ":"
                          THEN spaceThenRest(line, m + 1, 0)
                          ELSE {}
                 ELSE {}
        first == FirstTrue([i \in 1..Len(line) |-> at(i) # {}], 1, Len(line))
    IN  IF first = 0 THEN {} ELSE at(first)

\* line.match(/^#\s+(.+)|^\*\*(.+)\*\*/): match[1] || match[2], if the line matches
matchHeader(line) ==
    LET hash == IF charAt(line, 1) = "#" THEN spaceThenRest(line, 2, 1) ELSE {}
        ends == {e \in 4..SkipToLineEnd(line, 3) : startsWithAt(line, e, "**")}
        bold == IF startsWithAt(line, 1, "**") /\ ends # {}
                THEN {SubSeq(line, 3, (CHOOSE e \in ends : \A r \in ends : r <= e) - 1)}
                ELSE {}
    IN  IF hash # {} THEN hash ELSE bold

\* s.replace(/[...]/g, '') for a class of characters
removeChars(s, class) ==
    Concat([i \in 1..Len(s) |-> IF charAt(s, i) \in class THEN "" ELSE charAt(s, i)],
           1, Len(s))

\* What the body of the loop returns for a line, if it returns
projectNameOf(line) ==
    LET lower == toLowerCase(line)
        named == matchProjectName(line)
        header == matchHeader(line)
        name == removeChars(trim(TheOne(header)), {"'", "\""})
    IN  IF includes(lower, "project name") /\ includes(line, ":") /\ named # {}
        THEN {removeChars(trim(TheOne(named)), {"[", "]", "'", "\""})}
        ELSE IF includes(lower, "- project name") /\ named # {}
        THEN {removeChars(trim(TheOne(named)), {"[", "]", "'", "\""})}
        ELSE IF /\ header # {}
                /\ ~ includes(lower, "use case")
                /\ ~ includes(lower, "requirement")
                /\ ~ includes(lower, "overview")
                /\ Len(name) > 10 /\ Len(name) < 100
        THEN {name}
        ELSE {}

extractProjectName(aiResponse) ==
    LET lines == split(aiResponse)
        first == FirstTrue([i \in DOMAIN lines |-> projectNameOf(lines[i]) # {}],
                           1, Len(lines))
    IN  IF first = 0 THEN "AI Generated Project" ELSE TheOne(projectNameOf(lines[first]))

\* a || b on strings
OrString(a, b) == IF a = "" THEN b ELSE a

----------------------------------------------------------------------------
\* MemStorage.createProject
createProject(projectData) ==
    Merge(Merge([id |-> currentProjectId], projectData),
          [createdAt |-> now, updatedAt |-> now])

\* The project the chat handler creates
draftProject(teamSize) ==
    [status |-> "draft", teamSize |-> teamSize, ownerId |-> 1, approvalStatus |-> "draft"]

\* The argument of storage.createUseCase for each record of a list
useCaseData(projectId, records, type, defaultPriority) ==
    [i \in DOMAIN records |->
        [projectId |-> projectId, type |-> type,
         priority |-> IF records[i].priority = "" THEN defaultPriority
                      ELSE records[i].priority,
         status |-> "draft"]]

\* MemStorage.updateProject
updateProject(id, updates) ==
    IF id \notin DOMAIN projects THEN [map |-> projects, body |-> {}]
    ELSE LET updatedProject == Merge(Merge(projects[id], updates), [updatedAt |-> now])
         IN  [map |-> MapSet(projects, id, updatedProject), body |-> {updatedProject}]

\* Characters that no string of this module holds, by their code points
checkMark == "[U+2705]"
bullet == "[U+2022]"

emirProjectName == "EMIR Trade Reporting Platform"
emirProjectDescription == "Next-generation EMIR reporting system for derivative transaction reporting to European trade repositories with real-time validation, multi-TR connectivity, and comprehensive regulatory compliance capabilities."

\* The template literal fastResponse
fastResponse(functionalUseCases, nonFunctionalUseCases) ==
    joinLines(<<
        checkMark \o " **" \o emirProjectName \o "** has been created successfully with comprehensive enterprise-grade requirements!",
        "",
        "**Project Overview:**",
        emirProjectDescription,
        "",
        "**Generated Requirements:**",
        bullet \o " " \o ToString(Len(functionalUseCases)) \o " detailed functional use cases covering core business capabilities",
        bullet \o " " \o ToString(Len(nonFunctionalUseCases)) \o " comprehensive non-functional requirements for enterprise architecture",
        bullet \o " Regulatory compliance frameworks and technical specifications",
        bullet \o " Performance engineering and scalability architecture",
        bullet \o " Security controls and governance frameworks",
        "",
        "The project is now available in your dashboard with draft status, ready for review and submission for approval.">>)

\* The template literal enhancedResponse
enhancedResponse(aiResponse, projectName, functionalUseCases, nonFunctionalUseCases) ==
    aiResponse \o "\n\n" \o checkMark \o " Project created successfully! The project \""
        \o projectName \o "\" has been added to your dashboard with "
        \o ToString(Len(functionalUseCases)) \o " functional and "
        \o ToString(Len(nonFunctionalUseCases)) \o " non-functional use cases."

\* this.projects.set(project.id, project) of createProject
ProjectCreated(project) ==
    /\ projects' = MapSet(projects, project.id, project)
    /\ currentProjectId' = currentProjectId + 1

Responded(request, status, body) ==
    Merge(request, [pc |-> "done", status |-> status, body |-> body])

\* The handler up to its first await: bedrockClient.send, or, on the fast
\* track, storage.createProject, which has stored the project when it returns
\* its promise
ChatRequest ==
    \E input \in ChatInputs : \E message \in {input[1]}, role \in {input[2]} :
        /\ Len(chat) < MaxChats
        /\ IF isProjectCreationRequest(message) /\ role = "business-analyst"
              /\ isEMIRProject(message)
           THEN \* the fast track: no model call
                \E newProject \in {createProject(draftProject(8))} :
                    /\ ProjectCreated(newProject)
                    /\ chat' = Append(chat,
                           [pc |-> "useCases", message |-> message, role |-> role,
                            attempts |-> <<>>,
                            todo |-> useCaseData(newProject.id, getEMIRFunctionalRequirements,
                                                 "functional", "Medium")
                                     \o useCaseData(newProject.id,
                                                    getEMIRNonFunctionalRequirements,
                                                    "non-functional", "Medium"),
                            body |-> [response |-> fastResponse(getEMIRFunctionalRequirements,
                                                       getEMIRNonFunctionalRequirements),
                                      projectCreated |-> TRUE,
                                      projectId |-> newProject.id]])
           ELSE /\ chat' = Append(chat, [pc |-> "send", message |-> message, role |-> role])
                /\ UNCHANGED <<projects, currentProjectId>>
        /\ UNCHANGED <<store, deliverables, currentDeliverableId, now, call, ret,
                       inflight, steps, response, extracted, client>>

\* await bedrockClient.send(command) resolved with a body that parses.  A
\* project-creation request goes on to await applyBERTEnhancement; any other
\* request answers with the text.
ChatModelResponds ==
    \E n \in DOMAIN chat, rawAiResponse \in ChatResponses :
        /\ chat[n].pc = "send"
        /\ chat' = [chat EXCEPT ![n] =
               IF isProjectCreationRequest(@.message) /\ @.role = "business-analyst"
               THEN Merge(@, [pc |-> "enhance", rawAiResponse |-> rawAiResponse,
                              attempts |-> <<[modelId |-> modelId, outcome |-> "ok"]>>])
               ELSE Responded(Merge(@, [attempts |-> <<[modelId |-> modelId,
                                                        outcome |-> "ok"]>>]),
                              200, [response |-> rawAiResponse])]
        /\ UNCHANGED <<store, catalog, now, call, ret, inflight, steps, response,
                       extracted, client>>

\* await applyBERTEnhancement(rawAiResponse) resolved, with the refined text or,
\* after a failure inside it, with the raw one; the handler goes on to
\* storage.createProject.  The records it will store are those of the text.
ChatEnhanced ==
    \E n \in DOMAIN chat, enhanced \in BOOLEAN :
        /\ chat[n].pc = "enhance"
        /\ \E aiResponse \in {applyBERTEnhancement(chat[n].rawAiResponse, enhanced)} :
           \E functionalUseCases \in
                  {extractUseCasesFromResponse(aiResponse, "functional")
                   \o (IF isReconProject(chat[n].message)
                       THEN getReconFunctionalRequirements ELSE <<>>)} :
           \E nonFunctionalUseCases \in
                  {extractUseCasesFromResponse(aiResponse, "non-functional")
                   \o (IF isReconProject(chat[n].message)
                       THEN getReconNonFunctionalRequirements ELSE <<>>)} :
           \E newProject \in {createProject(draftProject(5))} :
               /\ ProjectCreated(newProject)
               /\ chat' = [chat EXCEPT ![n] =
                      Merge(@, [pc |-> "useCases", enhanced |-> enhanced,
                                todo |-> useCaseData(newProject.id, functionalUseCases,
                                                     "functional", "medium")
                                         \o useCaseData(newProject.id,
                                                        nonFunctionalUseCases,
                                                        "non-functional", "medium"),
                                body |-> [response |->
                                              enhancedResponse(aiResponse,
                                                  OrString(extractProjectName(aiResponse),
                                                           "AI Generated Project"),
                                                  functionalUseCases, nonFunctionalUseCases),
                                          projectCreated |-> TRUE,
                                          projectId |-> newProject.id]])]
        /\ UNCHANGED <<store, deliverables, currentDeliverableId, now, call, ret,
                       inflight, steps, response, extracted, client>>

\* The next turn of the two loops: await storage.createUseCase(...)
ChatCreateUseCase ==
    \E n \in DOMAIN chat :
        /\ chat[n].pc = "useCases"
        /\ chat[n].todo # <<>>
        /\ \E useCase \in {createUseCase(Head(chat[n].todo))} :
               /\ useCases' = MapSet(useCases, useCase.id, useCase)
               /\ currentUseCaseId' = currentUseCaseId + 1
        /\ chat' = [chat EXCEPT ![n].todo = Tail(@)]
        /\ UNCHANGED <<users, requirements, assignments, activities, currentUserId,
                       currentRequirementId, currentAssignmentId, currentActivityId,
                       catalog, now, call, ret, inflight, steps, response, extracted,
                       client>>

\* The loops are through: res.json(...)
ChatResponds ==
    \E n \in DOMAIN chat :
        /\ chat[n].pc = "useCases"
        /\ chat[n].todo = <<>>
        /\ chat' = [chat EXCEPT ![n] = Responded(@, 200, @.body)]
        /\ UNCHANGED <<store, catalog, now, call, ret, inflight, steps, response,
                       extracted, client>>

\* Mutant: the project is created before the model is called, so the failure
\* leaves it behind without use cases
ChatModelFails_KeepsProject ==
    \E n \in DOMAIN chat, failure \in SendFailures :
        /\ chat[n].pc = "send"
        /\ ProjectCreated(createProject(draftProject(5)))
        /\ chat' = [chat EXCEPT ![n] =
               Responded(Merge(@, [attempts |-> <<[modelId |-> modelId,
                                                   outcome |-> failure]>>]),
                         500, [message |-> "AI service temporarily unavailable"])]
        /\ UNCHANGED <<store, deliverables, currentDeliverableId, now, call, ret,
                       inflight, steps, response, extracted, client>>

\* The model call threw: the catch block of the handler
ChatModelFails ==
    \E n \in DOMAIN chat, failure \in SendFailures :
        /\ chat[n].pc = "send"
        /\ chat' = [chat EXCEPT ![n] =
               Responded(Merge(@, [attempts |-> <<[modelId |-> modelId,
                                                   outcome |-> failure]>>]),
                         500,
                         [message |-> "AI service temporarily unavailable",
                          response |-> "I'm having trouble connecting to the AI service. Please try again in a moment."])]
        /\ UNCHANGED <<store, catalog, now, call, ret, inflight, steps, response,
                       extracted, client>>

\* Bodies of POST /api/projects
ProjectInputs == {[teamSize |-> 3]}

\* POST /api/projects
PostProject ==
    \E projectData \in ProjectInputs :
        /\ steps < MaxProjects
        /\ steps' = steps + 1
        /\ ProjectCreated(createProject(
               Merge(projectData,
                     [status |-> "Planning", ownerId |-> 1, approvalStatus |-> "pending",
                      approvedById |-> NoUser, approvedAt |-> NoDate])))
        /\ UNCHANGED <<store, deliverables, currentDeliverableId, now, call, ret,
                       inflight, pipeline, client>>

\* A seeded project, and an id the store does not hold
ProjectIds == {2, 99}

\* The updates of POST /api/projects/:id/submit, /approve and /reject
projectUpdates(op) ==
    CASE op = "submit" -> [status |-> "in_review", approvalStatus |-> "pending"]
      [] op = "approve" -> [status |-> "approved", approvalStatus |-> "approved",
                            approvedAt |-> now]
      [] op = "reject" -> [status |-> "draft", approvalStatus |-> "rejected"]

\* POST /api/projects/:id/submit, /approve, /reject
PostProjectDecision ==
    \E id \in ProjectIds, op \in {"submit", "approve", "reject"} :
        /\ steps < MaxProjects
        /\ steps' = steps + 1
        /\ projects' = updateProject(id, projectUpdates(op)).map
        /\ UNCHANGED <<store, currentProjectId, deliverables, currentDeliverableId, now,
                       call, ret, inflight, pipeline, client>>

NextChat ==
    \/ ChatRequest
    \/ ChatModelResponds
    \/ ChatEnhanced
    \/ ChatCreateUseCase
    \/ ChatResponds
    \/ ChatModelFails
    \/ PostProject
    \/ PostProjectDecision

\* The chat requests, interleaved at their awaits, beside the project routes.
\* The clock stands still: the requests of one behaviour fall into one instant.
SpecChat == Init /\ [][NextChat]_vars

----------------------------------------------------------------------------
(* Assignment and activity history.  storage.createAssignment and           *)
(* storage.updateAssignment, a direct activity entry, a role update, and    *)
(* approve and reject, which write neither map; approve is also called for  *)
(* a use case the store does not hold.                                      *)

UnknownId == 99
ManualComment == "please review"

AssignmentInputs ==
    {[type |-> "use_case", entityId |-> e, fromUserId |-> 1, toUserId |-> 3,
      comments |-> ManualComment, dueDate |-> NoDate] : e \in {1, UnknownId}}

AssignmentIds == {1, UnknownId}

AssignmentUpdates ==
    {[status |-> "accepted"], [status |-> "completed", toUserId |-> 2]}

ActivityInputs ==
    {[userId |-> 1, action |-> "commented", entityType |-> "use_case", entityId |-> 1]}

CreateAssignment ==
    \E assignmentData \in AssignmentInputs :
        LET assignment == createAssignment(assignmentData)
        IN  /\ assignments' = MapSet(assignments, assignment.id, assignment)
            /\ currentAssignmentId' = currentAssignmentId + 1
            /\ call' = Called("createAssignment", assignment.id, assignmentData.fromUserId,
                              assignmentData, {})
            /\ ret' = Returned({assignment})
            /\ UNCHANGED <<users, useCases, requirements, activities, currentUserId,
                           currentUseCaseId, currentRequirementId, currentActivityId,
                           now, inflight>>

UpdateAssignment ==
    \E id \in AssignmentIds, updates \in AssignmentUpdates :
        LET r == updateAssignment(id, updates)
        IN  /\ assignments' = r.map
            /\ call' = Called("updateAssignment", id, NoUser, updates,
                              MapGet(assignments, id))
            /\ ret' = Returned(r.body)
            /\ UNCHANGED <<users, useCases, requirements, activities, currentUserId,
                           currentUseCaseId, currentRequirementId, currentAssignmentId,
                           currentActivityId, now, inflight>>

CreateActivity ==
    \E activityData \in ActivityInputs :
        LET activity == createActivity(activityData)
        IN  /\ activities' = MapSet(activities, activity.id, activity)
            /\ currentActivityId' = currentActivityId + 1
            /\ call' = Called("createActivity", activity.id, activityData.userId,
                              activityData, {})
            /\ ret' = Returned({activity})
            /\ UNCHANGED <<users, useCases, requirements, assignments, currentUserId,
                           currentUseCaseId, currentRequirementId, currentAssignmentId,
                           now, inflight>>

Limits == {1, 10}        \* limit = 10 by default

GetRecentActivities ==
    \E limit \in Limits :
        /\ call' = Called("getRecentActivities", limit, NoUser, "none", {})
        /\ ret' = Returned({getRecentActivities(limit)})
        /\ UNCHANGED <<store, now, inflight>>

ApproveAny ==
    \E id \in {1, UnknownId}, approvedBy \in ActingUsers : ApproveUseCaseOf(id, approvedBy)

HistoryOperation ==
    \/ UpdateUser
    \/ ApproveAny
    \/ RejectUseCase
    \/ CreateAssignment
    \/ UpdateAssignment
    \/ CreateActivity
    \/ GetRecentActivities
    \/ CreateRequirement

HistoryStep ==
    /\ steps < MaxSteps
    /\ steps' = steps + 1
    /\ HistoryOperation
    /\ UNCHANGED <<catalog, pipeline, client>>

NextHist == Tick \/ HistoryStep

\* Assignments and activities over time
SpecHist == Init /\ [][NextHist]_vars

----------------------------------------------------------------------------
(* Deliverables: the storage calls behind POST /api/deliverables, which the  *)
(* use-case page sends with a useCaseId and no requirementId, and behind an  *)
(* update of a deliverable.                                                  *)

DeliverableInputs ==
    {[requirementId |-> 1, title |-> "story", description |-> "As a trader",
      type |-> "story", storyPoints |-> 3, acceptanceCriteria |-> <<"given">>,
      labels |-> <<"emir">>],
     [requirementId |-> 1, title |-> "epic", description |-> "Reporting",
      type |-> "epic"],
     [requirementId |-> UnknownId, title |-> "story", description |-> "Orphan",
      type |-> "task"],
     [useCaseId |-> 1, title |-> "documentation", description |-> "Guide",
      type |-> "documentation", priority |-> "high"]}

DeliverableIds == {1, UnknownId}

DeliverableUpdates == {[status |-> "done"], [requirementId |-> 2]}

CreateDeliverable ==
    \E deliverableData \in DeliverableInputs :
        LET deliverable == createDeliverable(deliverableData)
        IN  /\ deliverables' = MapSet(deliverables, deliverable.id, deliverable)
            /\ currentDeliverableId' = currentDeliverableId + 1
            /\ call' = Called("createDeliverable", deliverable.id, NoUser,
                              deliverableData, {})
            /\ ret' = Returned({deliverable})
            /\ UNCHANGED <<store, now, inflight, projects, currentProjectId, pipeline,
                           client>>

UpdateDeliverable ==
    \E id \in DeliverableIds, updates \in DeliverableUpdates :
        LET r == updateDeliverable(id, updates)
        IN  /\ deliverables' = r.map
            /\ call' = Called("updateDeliverable", id, NoUser, updates,
                              MapGet(deliverables, id))
            /\ ret' = Returned(r.body)
            /\ UNCHANGED <<store, now, inflight, projects, currentProjectId,
                           currentDeliverableId, pipeline, client>>

GenerateJiraData ==
    \E requirementId \in RequirementIds :
        /\ call' = Called("generateJiraData", requirementId, NoUser, "none", {})
        /\ ret' = Returned({generateJiraData(requirementId)})
        /\ UNCHANGED <<store, now, inflight, catalog, pipeline, client>>

DeliverableOperation ==
    \/ CreateRequirement /\ UNCHANGED <<catalog, pipeline, client>>
    \/ CreateDeliverable
    \/ UpdateDeliverable
    \/ GenerateJiraData

DeliverableStep ==
    /\ steps < MaxSteps
    /\ steps' = steps + 1
    /\ DeliverableOperation

NextDeliv == Tick \/ DeliverableStep

\* Requirements and their deliverables
SpecDeliv == Init /\ [][NextDeliv]_vars

----------------------------------------------------------------------------
(* Identifiers.  POST and PUT /api/use-cases hand req.body to the storage    *)
(* method as it is, so a body may carry an id of its own.                    *)

UseCaseBodies ==
    UseCaseInputs \cup {[id |-> 1, projectId |-> 2, priority |-> "low", status |-> "draft"]}

UseCaseUpdateBodies ==
    UseCaseUpdates \cup {[id |-> Len(projectUseCases) + 1]}

PostAnyBody ==
    \E body \in UseCaseBodies : PostUseCaseOf(body)

PutAnyBody ==
    \E id \in UseCaseIds, updateData \in UseCaseUpdateBodies : PutUseCaseOf(id, updateData)

IdentifierStep ==
    /\ steps < MaxSteps
    /\ steps' = steps + 1
    /\ PostAnyBody \/ PutAnyBody
    /\ UNCHANGED <<catalog, pipeline, client>>

NextIds == Tick \/ IdentifierStep

\* Creates and updates of use cases with any body
SpecIds == Init /\ [][NextIds]_vars

----------------------------------------------------------------------------
(* FileUploader (src/client/src/lib/auth.tsx).  uploadFiles runs up to its   *)
(* await of fetch in one piece (UploadFiles), resumes when the request       *)
(* returns (FetchReturns) or fails (FetchFails), and its setTimeout callback *)
(* runs three seconds later (TimerFires).  A File object is named by its     *)
(* file name; the session id is present.                                     *)

FileLists == {<<"report.pdf">>, <<"report.pdf", "notes.txt">>}

\* `${file.name}-${file.size}-${Date.now()}`
fileId(file) == <<file, now>>

\* this.uploads.set(fileId, entry): a key the map holds keeps its place
setUpload(ups, entry) ==
    LET at == {i \in DOMAIN ups : ups[i].fileId = entry.fileId}
    IN  IF at = {} THEN Append(ups, entry) ELSE [ups EXCEPT ![Min(at)] = entry]

\* Array.from(this.uploads.keys()).find(id => this.uploads.get(id)?.file === file)
findFileId(ups, file) ==
    LET hits == {i \in DOMAIN ups : ups[i].file = file}
    IN  IF hits = {} THEN {} ELSE {ups[Min(hits)].fileId}

\* if (fileId) this.updateProgress(fileId, update)
updateProgress(ups, found, update) ==
    IF found = {} THEN ups
    ELSE [i \in DOMAIN ups |->
             IF ups[i].fileId = TheOne(found) THEN Merge(ups[i], update) ELSE ups[i]]

\* files.forEach(file => this.uploads.set(fileId, {file, progress: 0, status: 'pending'}))
RECURSIVE trackEach(_, _, _)
trackEach(ups, files, k) ==
    IF k > Len(files) THEN ups
    ELSE trackEach(setUpload(ups, [fileId |-> fileId(files[k]), file |-> files[k],
                                   progress |-> 0, status |-> "pending"]),
                   files, k + 1)

\* files.forEach((file, index) => ...): the k-th file's entry is looked up by
\* the file and takes the update updates[k] holds, if it holds one
RECURSIVE updateEach(_, _, _, _)
updateEach(ups, files, k, updates) ==
    IF k > Len(files) THEN ups
    ELSE updateEach(IF updates[k] = {} THEN ups
                    ELSE updateProgress(ups, findFileId(ups, files[k]),
                                        TheOne(updates[k])),
                    files, k + 1, updates)

Every(files, update) == [k \in DOMAIN files |-> {update}]

\* What response.json() holds: a document for every file, or for none
DocumentLists(files) == {[k \in DOMAIN files |-> 100 + k], <<>>}

UploadFiles ==
    \E files \in FileLists :
        /\ Len(transfers) < MaxUploads
        /\ uploads' = updateEach(trackEach(uploads, files, 1), files, 1,
                                 Every(files, [status |-> "uploading", progress |-> 10]))
        /\ transfers' = Append(transfers, [files |-> files, pc |-> "fetch", at |-> now])
        /\ UNCHANGED <<store, catalog, pipeline, now, call, ret, inflight, steps>>

FetchReturns ==
    \E n \in DOMAIN transfers :
        /\ transfers[n].pc = "fetch"
        /\ \E documents \in DocumentLists(transfers[n].files) :
               uploads' = updateEach(uploads, transfers[n].files, 1,
                              [k \in DOMAIN transfers[n].files |->
                                  IF k \in DOMAIN documents
                                  THEN {[status |-> "processing", progress |-> 50,
                                         documentId |-> documents[k]]}
                                  ELSE {}])
        /\ transfers' = [transfers EXCEPT ![n].pc = "timer"]
        /\ UNCHANGED <<store, catalog, pipeline, now, call, ret, inflight, steps>>

\* new Error(message), and a thrown value that is no Error
Error(message) == [isError |-> TRUE, message |-> message]
NoError == [isError |-> FALSE]

\* What the try block throws: the response is not ok (by its statusText),
\* fetch rejects, or response.json() rejects
Thrown ==
    {Error("Upload failed: " \o statusText) : statusText \in {"Internal Server Error", ""}}
        \cup {Error("Failed to fetch"), NoError,
              Error("Unexpected token < in JSON at position 0")}

\* error instanceof Error ? error.message : 'Upload failed'
errorMessage(error) == IF error.isError THEN error.message ELSE "Upload failed"

\* The catch block
FetchFails ==
    \E n \in DOMAIN transfers, error \in Thrown :
        /\ transfers[n].pc = "fetch"
        /\ uploads' = updateEach(uploads, transfers[n].files, 1,
                                 Every(transfers[n].files,
                                       [status |-> "error", error |-> errorMessage(error)]))
        /\ transfers' = [transfers EXCEPT ![n].pc = "thrown"]
        /\ UNCHANGED <<store, catalog, pipeline, now, call, ret, inflight, steps>>

\* The callback of setTimeout(..., 3000): time has passed since the call
TimerFires ==
    \E n \in DOMAIN transfers :
        /\ transfers[n].pc = "timer"
        /\ now' = IF now > transfers[n].at THEN now ELSE transfers[n].at + 1
        /\ uploads' = updateEach(uploads, transfers[n].files, 1,
                                 Every(transfers[n].files,
                                       [status |-> "completed", progress |-> 100]))
        /\ transfers' = [transfers EXCEPT ![n].pc = "done"]
        /\ UNCHANGED <<store, catalog, pipeline, call, ret, inflight, steps>>

\* clearProgress(): the map is emptied; calls under way go on
ClearProgress ==
    /\ uploads # <<>>
    /\ uploads' = <<>>
    /\ UNCHANGED <<store, catalog, pipeline, now, call, ret, inflight, steps, transfers>>

NextUpload ==
    Tick \/ UploadFiles \/ FetchReturns \/ FetchFails \/ TimerFires \/ ClearProgress

\* The uploader; every request returns or fails, and every timer fires
SpecUpload ==
    /\ Init /\ [][NextUpload]_vars
    /\ WF_vars(FetchReturns \/ FetchFails)
    /\ WF_vars(TimerFires)

----------------------------------------------------------------------------
\* An operation on users and use cases; behaviours hold at most MaxSteps
UseCaseOperation ==
    \/ CreateUser
    \/ UpdateUser
    \/ PostUseCase
    \/ PutUseCase
    \/ SubmitUseCase
    \/ ApproveUseCase
    \/ RejectUseCase

\* An operation on requirements
RequirementOperation ==
    \/ CreateRequirement
    \/ UpdateRequirement
    \/ AssignToPm
    \/ AcceptRequirement

UseCaseStep ==
    /\ steps < MaxSteps
    /\ steps' = steps + 1
    /\ UseCaseOperation
    /\ UNCHANGED <<catalog, pipeline, client>>

RequirementStep ==
    /\ steps < MaxSteps
    /\ steps' = steps + 1
    /\ RequirementOperation
    /\ UNCHANGED <<catalog, pipeline, client>>

Next == Tick \/ UseCaseStep

NextReq == Tick \/ RequirementStep

\* The use-case workflow
Spec == Init /\ [][Next]_vars

\* The requirement workflow
SpecReq == Init /\ [][NextReq]_vars

----------------------------------------------------------------------------
(* Concurrent requests.  A request is issued by a client and served later   *)
(* by its storage call, so the requests of several clients interleave; each *)
(* storage call itself runs to completion.  The client offers approve and reject only to a user of the  *)
(* role "business_analyst" and only on a use case it shows as "Pending      *)
(* Review" (canApprove), so a request is issued by such a user against such *)
(* a use case.  inflight[n] is the n-th request and where it stands.        *)

ConcurrentIds == {1}

\* Who signs up while requests are under way; no seeded user is an analyst
AnalystInputs == {[role |-> "business_analyst"], [role |-> "architect"]}

\* isBusAnalyst && useCase.status === "Pending Review"; currentUser is the
\* answer of /api/auth/me, if there is one
canApprove(currentUser, useCase) ==
    /\ \E user \in currentUser : user.role = "business_analyst"
    /\ useCase.status = "Pending Review"

Issue ==
    \E op \in {"approve", "reject"}, id \in ConcurrentIds,
       actingUser \in DOMAIN users, reason \in Reasons :
        /\ Cardinality(DOMAIN inflight) < MaxInflight
        /\ op = "approve" => reason = "undefined"
        /\ id \in DOMAIN useCases
        /\ canApprove(MapGet(users, actingUser), useCases[id])
        /\ inflight' = MapSet(inflight, Cardinality(DOMAIN inflight) + 1,
                              [op |-> op, id |-> id, user |-> actingUser,
                               reason |-> reason, pc |-> "transition",
                               code |-> "none"])
        /\ UNCHANGED <<store, now, call, ret, steps, catalog, pipeline, client>>

\* storage.approveUseCase(...) or storage.rejectUseCase(...) for request n
Transition(n) ==
    /\ inflight[n].pc = "transition"
    /\ LET q == inflight[n]
           r == IF q.op = "approve" THEN approveUseCase(q.id, q.user)
                ELSE rejectUseCase(q.id, q.user, q.reason)
       IN  /\ useCases' = r.map
           /\ call' = Called(q.op, q.id, q.user, q.reason, MapGet(useCases, q.id))
           /\ ret' = Returned(r.body)
           /\ inflight' = [inflight EXCEPT
                  ![n].code = Returned(r.body).code,
                  ![n].pc = "done"]
    /\ UNCHANGED <<users, requirements, assignments, activities, currentUserId,
                   currentUseCaseId, currentRequirementId, currentAssignmentId,
                   currentActivityId, now, steps, catalog, pipeline, client>>

NextConc ==
    \/ Issue
    \/ \E n \in DOMAIN inflight : Transition(n)
    \/ \E insertUser \in AnalystInputs :
           CreateUserOf(insertUser) /\ UNCHANGED <<steps, catalog, pipeline, client>>

\* Requests on one use case, each issued after the client's check and
\* served by its storage call later
SpecConc == Init /\ [][NextConc]_vars

----------------------------------------------------------------------------
(* Properties.  `call` holds the last operation and the store it found, so  *)
(* each property below reads: whenever the last operation was ..., the      *)
(* store now is ...                                                         *)

Before == TheOne(call.before)

\* The operation addressed a use case that existed, and that use case now
OnUseCase(op) == call.op = op /\ call.before # {}
UseCaseNow == useCases[call.id]
RequirementNow == requirements[call.id]

NewActivities == {i \in DOMAIN activities : i \notin DOMAIN call.activities}
NewAssignments == {i \in DOMAIN assignments : i \notin DOMAIN call.assignments}

OldActivitiesKept == \A i \in DOMAIN call.activities :
                         i \in DOMAIN activities /\ activities[i] = call.activities[i]

\* The status of the specification that a stored status string stands for
SpecStatus(status) ==
    CASE status = "Pending Review" -> "pending_review"
      [] status = "Approved" -> "approved"
      [] status = "Rejected" -> "rejected"
      [] OTHER -> status

\* C1: approve on a use case that is not in pending review fails with
\* InvalidTransition and leaves the use case and the activity log as they were.
C1_ApproveOutsidePendingFails ==
    (OnUseCase("approve") /\ SpecStatus(Before.status) # "pending_review")
        => /\ ret.code = "InvalidTransition"
           /\ UseCaseNow = Before
           /\ activities = call.activities

\* C2: approve on a use case in pending review leaves it approved and appends
\* exactly one activity entry, which names the acting user and the use case,
\* whoever acts and whether or not an architect exists.
C2_ApprovePendingApprovesAndLogsOnce ==
    (OnUseCase("approve") /\ SpecStatus(Before.status) = "pending_review")
        => /\ SpecStatus(UseCaseNow.status) = "approved"
           /\ Cardinality(NewActivities) = 1
           /\ OldActivitiesKept
           /\ \A i \in NewActivities :
                  /\ activities[i].userId = call.user
                  /\ activities[i].entityId = call.id

\* C3: a successful approve of a use case in pending review creates exactly one
\* Assignment, from the acting user to an architect, about that use case and
\* with a due date, if some user holds the architect role, and none otherwise.
C3_ApproveAssignsIffArchitect ==
    (OnUseCase("approve") /\ SpecStatus(Before.status) = "pending_review")
        => LET architects == {u \in DOMAIN users : users[u].role = "architect"}
           IN  /\ Cardinality(NewAssignments) = IF architects # {} THEN 1 ELSE 0
               /\ \A i \in DOMAIN call.assignments :
                      i \in DOMAIN assignments /\ assignments[i] = call.assignments[i]
               /\ \A i \in NewAssignments :
                      /\ assignments[i].fromUserId = call.user
                      /\ assignments[i].toUserId \in architects
                      /\ assignments[i].entityId = call.id
                      /\ assignments[i].type = "use_case"
                      /\ assignments[i].dueDate = assignments[i].createdAt + DueDays

\* C4: accept on a requirement that is already accepted leaves acceptedAt and
\* acceptedBy as the first accept stamped them and adds no activity entry.
C4_AcceptIdempotent ==
    (call.op = "accept" /\ call.before # {} /\ Before.status = "accepted")
        => /\ RequirementNow.acceptedAt = Before.acceptedAt
           /\ RequirementNow.acceptedBy = Before.acceptedBy
           /\ activities = call.activities

\* C5: approve, reject and accept add exactly one activity entry when they
\* change the status of the use case or requirement, and none when they do not.
C5_OneEntryPerTransition ==
    (call.op \in {"approve", "reject"} /\ call.before # {})
        => Cardinality(NewActivities) =
               IF UseCaseNow.status # Before.status THEN 1 ELSE 0

\* C6: reject on a use case that is not in pending review fails with
\* InvalidTransition and leaves status, metadata and the activity log as they were.
C6_RejectOutsidePendingFails ==
    (OnUseCase("reject") /\ SpecStatus(Before.status) # "pending_review")
        => /\ ret.code = "InvalidTransition"
           /\ UseCaseNow.status = Before.status
           /\ UseCaseNow.metadata = Before.metadata
           /\ activities = call.activities

\* C7: a successful reject of a use case in pending review sets the status to
\* rejected, stores the given reason in the metadata, keeps the metadata that
\* was there, and creates no Assignment.
C7_RejectStoresReason ==
    (OnUseCase("reject") /\ SpecStatus(Before.status) = "pending_review")
        => /\ SpecStatus(UseCaseNow.status) = "rejected"
           /\ "rejectionReason" \in DOMAIN UseCaseNow.metadata
           /\ UseCaseNow.metadata["rejectionReason"] = call.arg
           /\ \A k \in (DOMAIN Before.metadata) \ {"rejectionReason"} :
                  /\ k \in DOMAIN UseCaseNow.metadata
                  /\ UseCaseNow.metadata[k] = Before.metadata[k]
           /\ assignments = call.assignments

C7_Witness ==
    /\ OnUseCase("reject")
    /\ SpecStatus(Before.status) = "pending_review"
    /\ "note" \in DOMAIN Before.metadata
    /\ call.arg = "duplicate"
    /\ ret.code = "ok"

\* The edges of the use-case life cycle
UseCaseEdges ==
    { <<"draft", "pending_review">>, <<"pending_review", "approved">>,
      <<"pending_review", "rejected">>, <<"approved", "assigned">>,
      <<"assigned", "in_development">>, <<"in_development", "completed">> }

\* C8: a use case starts in draft, and every later change of its status, by
\* create, generic update, submit, approve or reject, follows an edge of the
\* life cycle.
C8_UseCaseLifeCycle ==
    /\ call.op = "createUseCase" => SpecStatus(UseCaseNow.status) = "draft"
    /\ (call.op \in {"updateUseCase", "submit", "approve", "reject"} /\ call.before # {})
           => \/ UseCaseNow.status = Before.status
              \/ <<SpecStatus(Before.status), SpecStatus(UseCaseNow.status)>> \in UseCaseEdges

\* C9: once a requirement is accepted no storage operation gives it another
\* status, and no requirement leaves the store.
C9_AcceptedIsTerminal ==
    (call.op \in {"accept", "assignToPm", "updateRequirement"} /\ call.before # {})
        => /\ call.id \in DOMAIN requirements
           /\ Before.status = "accepted" => RequirementNow.status = "accepted"

\* C10: of two transitions issued concurrently on one use case in pending
\* review, at most one succeeds, as if they had run one after the other with
\* the guard on pending review.
C10_AtMostOneConcurrentTransitionSucceeds ==
    \A m, n \in DOMAIN inflight :
        (m # n /\ inflight[m].id = inflight[n].id
              /\ inflight[m].pc = "done" /\ inflight[n].pc = "done")
            => ~ (inflight[m].code = "ok" /\ inflight[n].code = "ok")

----------------------------------------------------------------------------
(* Properties of the extraction parser (SpecExtract) *)

Lines == split(response)

\* C13: for a response in which no line starts a record, extraction returns
\* exactly one catch-all record, and never an empty list.
C13_NoRecordStartYieldsCatchAll ==
    \A type \in DOMAIN extracted :
        (\A i \in DOMAIN Lines : ~ startsRecord(Lines[i]))
            => Len(extracted[type]) = 1

\* C14: for a well-formed response whose functional section holds n headers,
\* extraction returns exactly n records, in header order, each with a
\* non-empty title taken from its header and a description of at least 100
\* characters, whether the bodies are short or long and however large n is.
C14_OneRecordPerHeader ==
    \A n \in HeaderCounts, body \in {longBody, shortBody} :
        (response = WellFormed(n, body) /\ "functional" \in DOMAIN extracted)
            => LET records == extracted["functional"]
               IN  /\ Len(records) = n
                   /\ \A i \in DOMAIN records :
                          /\ records[i].title # ""
                          /\ includes(HeaderInputs[i], records[i].title)
                          /\ Len(records[i].description) >= 100

Priorities == {"low", "medium", "high", "critical"}

\* C15: the priority of every extracted record is one of low, medium, high and
\* critical, and it is medium when the record holds none of the keywords
\* critical, high and low.
C15_PriorityFromKeywords ==
    \A type \in DOMAIN extracted :
        \A i \in DOMAIN extracted[type] :
            LET record == extracted[type][i]
                text == toLowerCase(record.title \o " " \o record.description)
            IN  /\ record.priority \in Priorities
                /\ (~ \E word \in {"critical", "high", "low"} : includes(text, word))
                       => record.priority = "medium"

\* C26: every record the extraction returns has a description of at most
\* 2000 characters, whatever the response, a header line of more than 2000
\* characters and the last record of a response included.
C26_DescriptionWithinCeiling ==
    \A type \in DOMAIN extracted :
        \A k \in DOMAIN extracted[type] :
            Len(extracted[type][k].description) <= 2000

----------------------------------------------------------------------------
(* Properties of the chat request (SpecChat) *)

\* The prioritized list of the specification: the model the handler names
\* first, then the candidate that a failure of it falls back to
ModelCandidates == <<modelId, "next-candidate">>

Failed(attempt) == attempt.outcome # "ok"

\* A request that was answered after a model call
Answered(n) == chat[n].pc = "done" /\ chat[n].attempts # <<>>

LastAttempt(n) == chat[n].attempts[Len(chat[n].attempts)]

\* C11: a model invocation tries the candidates of the prioritized list one at
\* a time and in order, goes on to the next one after each failure, answers
\* with the first response that succeeds, and reports the model unavailable
\* only when every candidate of the list has been tried and has failed.
C11_FallbackCascade ==
    \A n \in DOMAIN chat :
        Answered(n)
            => LET attempts == chat[n].attempts
               IN  /\ Len(attempts) <= Len(ModelCandidates)
                   /\ \A i \in DOMAIN attempts : attempts[i].modelId = ModelCandidates[i]
                   /\ \A i \in 1..(Len(attempts) - 1) : Failed(attempts[i])
                   /\ ~ Failed(LastAttempt(n)) => chat[n].status = 200
                   /\ Failed(LastAttempt(n)) => Len(attempts) = Len(ModelCandidates)

\* C12: when the model is unavailable the chat request still completes with a
\* successful HTTP response that carries an apology in its response field.
C12_UnavailableIsNotAnHttpFailure ==
    \A n \in DOMAIN chat :
        (Answered(n) /\ Failed(LastAttempt(n)))
            => /\ chat[n].status = 200
               /\ "response" \in DOMAIN chat[n].body

----------------------------------------------------------------------------
(* Assignment and activity history (SpecHist) *)

\* C17: no step removes an Assignment, and a step that creates or updates an
\* Assignment leaves every use case and every requirement as it was.
C17_AssignmentsAppendOnly ==
    [][ /\ DOMAIN assignments \subseteq DOMAIN assignments'
        /\ (steps' # steps /\ call'.op \in {"createAssignment", "updateAssignment"})
               => /\ useCases' = useCases
                  /\ requirements' = requirements ]_vars

\* An assignment was handed to another user and completed, and the use case it
\* is about still names the owner it had
C17_Witness ==
    /\ call.op = "updateAssignment"
    /\ ret.code = "ok"
    /\ assignments[call.id].status = "completed"
    /\ assignments[call.id].entityId \in DOMAIN useCases
    /\ assignments[call.id].toUserId
           # useCases[assignments[call.id].entityId].assignedTo

\* C18: every activity entry stays in the log, with every field as it was
\* written, in every step.
C18_ActivityLogAppendOnly ==
    [][ \A i \in DOMAIN activities :
            i \in DOMAIN activities' /\ activities'[i] = activities[i] ]_vars

\* A second entry was written later than the first, and the first is intact
C18_Witness ==
    /\ call.op \in {"createActivity", "approve", "reject"}
    /\ NewActivities # {}
    /\ OldActivitiesKept
    /\ \E i \in DOMAIN call.activities, j \in NewActivities :
           activities[i].createdAt < activities[j].createdAt

----------------------------------------------------------------------------
(* Deliverables (SpecDeliv) *)

\* C19: the parent of a Deliverable is fixed at creation: no step, an update
\* with arbitrary fields included, changes the requirementId of a stored
\* Deliverable.
C19_DeliverableParentFixed ==
    [][ \A i \in DOMAIN deliverables :
            /\ i \in DOMAIN deliverables'
            /\ deliverables'[i].requirementId = deliverables[i].requirementId ]_vars

\* C20: every stored Deliverable has a requirementId that is the id of a
\* stored Requirement.
C20_DeliverableHasParent ==
    \A i \in DOMAIN deliverables :
        deliverables[i].requirementId \in DOMAIN requirements

Export == TheOne(ret.body)

\* The ids of the stored deliverables of the requirement asked for, and the
\* k-th of them in stored order
ExportedIds == {i \in DOMAIN deliverables : deliverables[i].requirementId = call.id}
Exported(k) ==
    deliverables[CHOOSE i \in ExportedIds :
                     Cardinality({j \in ExportedIds : j < i}) = k - 1]

\* C21: the export for a requirement has one entry per stored deliverable of
\* that requirement, in stored order; every entry repeats the deliverable's
\* title, description, type, priority, points, criteria and labels, and
\* carries no other data.
C21_ExportIsProjection ==
    call.op = "generateJiraData"
        => /\ Len(Export) = Cardinality(ExportedIds)
           /\ \A k \in DOMAIN Export :
                  /\ Export[k].summary = Exported(k).title
                  /\ Export[k].description = Exported(k).description
                  /\ Export[k].issueType = Exported(k).type
                  /\ Export[k].priority = Exported(k).priority
                  /\ Export[k].storyPoints = Exported(k).storyPoints
                  /\ Export[k].acceptanceCriteria = Exported(k).acceptanceCriteria
                  /\ Export[k].labels = Exported(k).labels
                  /\ \A f \in DOMAIN Export[k] \ {"summary", "description", "issueType",
                          "priority", "storyPoints", "acceptanceCriteria", "labels"} :
                         Export[k][f] = <<>>

\* Two deliverables of the requirement were exported, the older one first
C21_Witness ==
    /\ call.op = "generateJiraData"
    /\ Len(Export) = 2
    /\ Export[1].summary # Export[2].summary
    /\ Exported(1).id < Exported(2).id

----------------------------------------------------------------------------
(* Requirements (SpecReq) *)

\* C22: accept on an id for which the store holds no requirement answers not
\* found and changes no requirement and no activity entry.
C22_AcceptUnknownChangesNothing ==
    [][ (steps' # steps /\ call'.op = "accept" /\ call'.before = {})
            => /\ ret'.code = "not_found"
               /\ requirements' = requirements
               /\ activities' = activities ]_vars

\* The unknown id was asked for while the store held another requirement
C22_Witness ==
    /\ call.op = "accept"
    /\ call.id = UnknownId
    /\ ret.code = "not_found"
    /\ requirements # EmptyMap
    /\ UnknownId \notin DOMAIN requirements

\* C23: no update lowers the version of a requirement, and an update that
\* changes its content raises the version.
C23_VersionGrowsWithContent ==
    (call.op = "updateRequirement" /\ call.before # {})
        => /\ RequirementNow.version >= Before.version
           /\ RequirementNow.content # Before.content
                  => RequirementNow.version > Before.version

\* C24: assignToPm on a stored requirement sets assignedPm and the update time
\* and leaves every other field, status, acceptedBy, acceptedAt, version and
\* content among them, as it was.
C24_AssignToPmIsOrthogonal ==
    (call.op = "assignToPm" /\ call.before # {})
        => /\ RequirementNow.assignedPm = call.arg
           /\ DOMAIN RequirementNow = DOMAIN Before
           /\ \A f \in DOMAIN Before \ {"assignedPm", "updatedAt"} :
                  RequirementNow[f] = Before[f]

\* A project manager was assigned to an accepted requirement
C24_Witness ==
    /\ call.op = "assignToPm"
    /\ call.before # {}
    /\ Before.status = "accepted"
    /\ Before.assignedPm = NoUser
    /\ RequirementNow.assignedPm # NoUser
    /\ RequirementNow.acceptedAt = Before.acceptedAt

----------------------------------------------------------------------------
(* Failures of the chat request (SpecChat) *)

ModelFailed(n) == Answered(n) /\ Failed(LastAttempt(n))

EnhancementFellBack(n) ==
    chat[n].pc = "done" /\ "enhanced" \in DOMAIN chat[n] /\ ~ chat[n].enhanced

\* C25: a chat request that met a failure it recovers from, the model being
\* unavailable or the enhancement falling back to the raw response, has
\* added an activity entry by the time it completes.
C25_RecoveredFailureIsLogged ==
    \A n \in DOMAIN chat :
        (ModelFailed(n) \/ EnhancementFellBack(n)) => DOMAIN activities # {}

\* The request arrives in this step and goes to the model
Arrives(n) == n \notin DOMAIN chat /\ n \in DOMAIN chat' /\ chat'[n].pc = "send"

\* The model call of the request fails in this step
FailsNow(n) ==
    /\ n \in DOMAIN chat /\ chat[n].pc = "send"
    /\ chat'[n].pc = "done" /\ Failed(chat'[n].attempts[Len(chat'[n].attempts)])

\* C27: when the model call of a project-creation request fails, the store
\* holds the projects and the use cases it held before the request: neither
\* of the two steps the request takes, arriving and failing, changes them.
C27_FailedRequestLeavesStore ==
    [][ \A n \in 1..MaxChats :
            ((Arrives(n) /\ isProjectCreationRequest(chat'[n].message))
                \/ (FailsNow(n) /\ isProjectCreationRequest(chat[n].message)))
                => /\ projects' = projects
                   /\ useCases' = useCases
                   /\ UNCHANGED <<currentProjectId, currentUseCaseId>> ]_vars

\* The model call of a project-creation request failed while another request
\* had created its project and not yet all its use cases
C27_Witness ==
    \E n, m \in DOMAIN chat :
        /\ ModelFailed(n)
        /\ isProjectCreationRequest(chat[n].message)
        /\ chat[n].role = "business-analyst"
        /\ chat[m].pc = "useCases" /\ chat[m].todo # <<>>

----------------------------------------------------------------------------
(* Identifiers (SpecIds) *)

\* C28: the id that a create hands out is the id of no use case stored
\* before, and the create leaves every stored use case as it was.
C28_CreatedIdIsFresh ==
    [][ (steps' # steps /\ call'.op = "createUseCase")
            => /\ call'.id \notin DOMAIN useCases
               /\ \A i \in DOMAIN useCases :
                      /\ useCases[i].id # call'.id
                      /\ useCases'[i] = useCases[i] ]_vars

----------------------------------------------------------------------------
(* FileUploader (SpecUpload) *)

Terminal == {"completed", "error"}

\* C29: an upload entry whose status is completed or error keeps that status
\* and does not lose progress in any later step, as long as the map holds it.
C29_TerminalStatusIsFinal ==
    [][ \A i \in DOMAIN uploads \cap DOMAIN uploads' :
            uploads[i].status \in Terminal
                => /\ uploads'[i].status = uploads[i].status
                   /\ uploads'[i].progress >= uploads[i].progress ]_vars

\* C30: every entry that uploadFiles adds to the progress map eventually has
\* the status completed or error, unless the map is cleared first.
C30_EveryUploadEnds ==
    \A i \in 1..(2 * MaxUploads) :
        (i \in DOMAIN uploads)
            ~> (i \in DOMAIN uploads => uploads[i].status \in Terminal)

====
